---------------------------- MODULE Spec2Model ----------------------------
(***************************************************************************)
(* Model of update_employees.py: the reconciliation of Banner (HR)         *)
(* employee records with the accounts object of the Knack HR app.          *)
(*                                                                         *)
(* A python dict is a TLA+ function whose DOMAIN is the dict's key set;    *)
(* a python list is a sequence.  A string that the code splits on white    *)
(* space or commas is a sequence of its tokens.                            *)
(***************************************************************************)
EXTENDS Integers, Sequences, FiniteSets, TLC

(***************************************************************************)
(* Bounds of the model.                                                    *)
(***************************************************************************)
\* Employee ids (pidm) are drawn from 1..MaxPidm.
MaxPidm == 2
\* Number of consecutive runs of the script that are followed.
MaxRuns == 2

Pidms == 1..MaxPidm

(***************************************************************************)
(* Field names of the Knack HR app.                                        *)
(***************************************************************************)
PK_FIELD == "field_99"
NAME_FIELD == "field_17"
PASSWORD_FIELD == "field_19"
USER_STATUS_FIELD == "field_20"
EMAIL_FIELD == "field_18"
CREATED_DATE_FIELD == "field_267"
CLASS_FIELD == "field_95"
SEPARATED_FIELD == "field_402"
USER_ROLE_FIELD == "field_21"

\* The "hr" column of FIELD_MAP, in list order.
FIELD_MAP == << "field_99", "field_95", "field_230", "field_18", "field_251",
                "field_250", "field_17", "field_248", "field_264" >>

\* The fields of FIELD_MAP that carry a handler returning a dict.
HandlerFields == { "field_18", "field_17", "field_264" }

NO_EMAIL == "no email"

(***************************************************************************)
(* Field handlers.                                                         *)
(***************************************************************************)
\* str.lower() on the email values that occur in the model.
Lower(s) ==
    CASE s = "A@X.GOV" -> "a@x.gov"
      [] s = "No Email" -> "no email"
      [] OTHER -> s

to_email(val) == [email |-> Lower(val)]

RECURSIVE SplitAt(_, _, _)
\* str.split(sep) on a token sequence: the list of the runs between separators.
SplitAt(toks, sep, cur) ==
    IF toks = << >> THEN << cur >>
    ELSE IF Head(toks) = sep
         THEN << cur >> \o SplitAt(Tail(toks), sep, << >>)
         ELSE SplitAt(Tail(toks), sep, Append(cur, Head(toks)))

\* name_parts[1] is the first name, name_parts[0] the last name (0-based).
parse_name(full_name) ==
    LET name_parts == SplitAt(full_name, ",", << >>)
    IN  [first |-> name_parts[2], last |-> name_parts[1]]

months_dict ==
    [ January |-> "01", February |-> "02", March |-> "03", April |-> "04",
      May |-> "05", June |-> "06", July |-> "07", August |-> "08",
      September |-> "09", October |-> "10", November |-> "11",
      December |-> "12" ]

\* val is <<month name, day, year, time>>: "January, 19 1999 00:00:00" split
\* on white space, the month without its trailing comma.
format_date(val) ==
    [date |-> months_dict[val[1]] \o "/" \o val[2] \o "/" \o val[3]]

(***************************************************************************)
(* Python dict updates.                                                    *)
(***************************************************************************)
\* d[k] = v
Put(d, k, v) == [x \in (DOMAIN d) \cup {k} |-> IF x = k THEN v ELSE d[x]]

\* d[k][k2] = v
PutSub(d, k, k2, v) == Put(d, k, Put(d[k], k2, v))

(***************************************************************************)
(* map_records                                                             *)
(***************************************************************************)
map_record(record) ==
    [ field_99  |-> record.pidm,
      field_95  |-> record.temp_status,
      field_230 |-> record.job_title,
      field_18  |-> to_email(record.email),
      field_251 |-> record.empclass_desc,
      field_250 |-> record.divn_name,
      field_17  |-> parse_name(record.fullname),
      field_248 |-> record.posn,
      field_264 |-> format_date(record.hiredate) ]

map_records(recs) == [i \in 1..Len(recs) |-> map_record(recs[i])]

(***************************************************************************)
(* create_placeholder_email                                                *)
(***************************************************************************)
RECURSIVE JoinNoSpace(_)
\* The words of a string with the blanks between them removed.
JoinNoSpace(words) ==
    IF words = << >> THEN "" ELSE Head(words) \o JoinNoSpace(Tail(words))

create_placeholder_email(record, name_field) ==
    LET first_name == record[name_field].first[1]
    IN  first_name \o "." \o JoinNoSpace(record[name_field].last)
            \o "@austintexas.gov"

(***************************************************************************)
(* is_different                                                            *)
(***************************************************************************)
\* Iteration order of a record's keys: insertion order, which is FIELD_MAP
\* order followed by the keys build_payload adds.
KeyOrder == FIELD_MAP \o << "id", "field_20", "field_19", "field_267", "field_21" >>
SubKeyOrder == << "email", "first", "last", "date" >>

Keys(d, order) == SelectSeq(order, LAMBDA k : k \in DOMAIN d)

RECURSIVE SubDiffers(_, _, _)
\* The inner loop of is_different over the keys of the banner sub-value.
SubDiffers(val, val_knack, keys) ==
    IF keys = << >> THEN FALSE
    ELSE IF val_knack[Head(keys)] # val[Head(keys)] THEN TRUE
         ELSE SubDiffers(val, val_knack, Tail(keys))

\* The outer loop's test without the unpacking of dicts: a structured
\* value is compared as a whole.
ValueDiffers_whole(key, val, val_knack) == val_knack # val

\* One iteration of the outer loop: does this key make the records differ.
\* isinstance(val, dict) holds of the values the handlers return.
ValueDiffers(key, val, val_knack) ==
    IF key \in HandlerFields
    THEN SubDiffers(val, val_knack, Keys(val, SubKeyOrder))
    ELSE val_knack # val

RECURSIVE DiffersFrom(_, _, _)
DiffersFrom(record_hr, record_knack, keys) ==
    IF keys = << >> THEN FALSE
    ELSE IF ValueDiffers(Head(keys), record_hr[Head(keys)], record_knack[Head(keys)])
         THEN TRUE
         ELSE DiffersFrom(record_hr, record_knack, Tail(keys))

is_different(record_hr, record_knack) ==
    DiffersFrom(record_hr, record_knack, Keys(record_hr, KeyOrder))


(***************************************************************************)
(* build_payload                                                           *)
(***************************************************************************)
\* random_password: a string with a lowercase letter, an uppercase letter,
\* a digit and a special character.  The script only stores the value, so
\* one such string stands for the ones secrets.choice may draw.
random_password == "aB1!"

\* The reactivation test without "and not r_knack[separated_field]".
Reactivate_any(r_knack) == r_knack[USER_STATUS_FIELD] = "inactive"

\* The reactivation test: inactive in knack and not marked as Separated.
Reactivate(r_knack) ==
    r_knack[USER_STATUS_FIELD] = "inactive" /\ ~ r_knack[SEPARATED_FIELD]

\* The body of "if pk_hr == pk_knack" without the is_different test.
Matched_nodiff(r_hr, r_knack) ==
    LET r1 == Put(r_hr, "id", r_knack["id"])
        r2 == IF Reactivate(r_knack)
              THEN Put(r1, USER_STATUS_FIELD, "active") ELSE r1
    IN  [ r_hr |-> IF r2[EMAIL_FIELD].email = NO_EMAIL
                   THEN PutSub(r2, EMAIL_FIELD, "email", r_knack[EMAIL_FIELD].email)
                   ELSE r2,
          emit |-> TRUE ]

\* The body of "if pk_hr == pk_knack": the banner record as it is left (it
\* is modified in place) and whether it is appended to the payload.
Matched(r_hr, r_knack) ==
    LET r1 == Put(r_hr, "id", r_knack["id"])
        r2 == IF Reactivate(r_knack)
              THEN Put(r1, USER_STATUS_FIELD, "active") ELSE r1
    IN  IF is_different(r2, r_knack)
        THEN [ r_hr |-> IF r2[EMAIL_FIELD].email = NO_EMAIL
                        THEN PutSub(r2, EMAIL_FIELD, "email", r_knack[EMAIL_FIELD].email)
                        ELSE r2,
               emit |-> TRUE ]
        ELSE [ r_hr |-> r2, emit |-> FALSE ]

\* The body of "if not exists_in_knack": the banner record as it is left.
Unmatched(r_hr, password, run_date) ==
    LET r1 == Put(r_hr, PASSWORD_FIELD, password)
        r2 == Put(r1, USER_STATUS_FIELD, "active")
        r3 == Put(r2, CREATED_DATE_FIELD, run_date)
        r4 == Put(r3, USER_ROLE_FIELD, << "profile_7" >>)
    IN  IF r4[EMAIL_FIELD].email = NO_EMAIL
        THEN PutSub(r4, EMAIL_FIELD, "email",
                    create_placeholder_email(r4, NAME_FIELD))
        ELSE r4

RECURSIVE FindKnack(_, _, _)
\* The inner loop over records_knack: the index of the first record whose
\* primary key equals pk_hr, 0 when the loop ends without a match.
FindKnack(recs_knack, pk_hr, j) ==
    IF j > Len(recs_knack) THEN 0
    ELSE IF pk_hr = recs_knack[j][PK_FIELD] THEN j
         ELSE FindKnack(recs_knack, pk_hr, j + 1)

RECURSIVE HrLoop(_, _, _, _, _)
\* The loop over records_hr from index i on.  acc holds payload, the
\* updates and additions labels, and records_hr as modified so far.
HrLoop(recs_knack, i, run_date, n, acc) ==
    IF i > n THEN acc
    ELSE
      LET r_hr == acc.records_hr[i]
          j == FindKnack(recs_knack, r_hr[PK_FIELD], 1)
      IN  IF j # 0
          THEN LET m == Matched(r_hr, recs_knack[j])
               IN  HrLoop(recs_knack, i + 1, run_date, n,
                     [ payload |-> IF m.emit THEN Append(acc.payload, m.r_hr)
                                   ELSE acc.payload,
                       updates |-> IF m.emit
                                   THEN Append(acc.updates, m.r_hr[NAME_FIELD])
                                   ELSE acc.updates,
                       additions |-> acc.additions,
                       records_hr |-> [acc.records_hr EXCEPT ![i] = m.r_hr] ])
          ELSE LET r_new == Unmatched(r_hr, random_password, run_date)
               IN  HrLoop(recs_knack, i + 1, run_date, n,
                     [ payload |-> Append(acc.payload, r_new),
                       updates |-> acc.updates,
                       additions |-> Append(acc.additions, r_new[NAME_FIELD]),
                       records_hr |-> [acc.records_hr EXCEPT ![i] = r_new] ])

\* The test below without the exemption of contractors.
ShouldInactivate_contractors(r_knack, matched) ==
    ~ matched /\ r_knack[USER_STATUS_FIELD] # "inactive"

\* The test that an unmatched knack record is to be marked inactive.
ShouldInactivate(r_knack, matched) ==
    /\ ~ matched
    /\ r_knack[USER_STATUS_FIELD] # "inactive"
    /\ r_knack[CLASS_FIELD] # "Contract"

RECURSIVE KnackLoop(_, _, _, _)
\* The loop over records_knack from index j on.  acc holds the payload
\* entries and the inactivate labels appended so far.
KnackLoop(recs_knack, recs_hr, j, acc) ==
    IF j > Len(recs_knack) THEN acc
    ELSE
      LET r_knack == recs_knack[j]
          matched == \E i \in 1..Len(recs_hr) :
                        recs_hr[i][PK_FIELD] = r_knack[PK_FIELD]
      IN  IF ShouldInactivate(r_knack, matched)
          THEN KnackLoop(recs_knack, recs_hr, j + 1,
                 [ payload |-> Append(acc.payload,
                                 [x \in {"id", USER_STATUS_FIELD} |->
                                    IF x = "id" THEN r_knack["id"] ELSE "inactive"]),
                   inactivate |-> Append(acc.inactivate, r_knack[NAME_FIELD]) ])
          ELSE KnackLoop(recs_knack, recs_hr, j + 1, acc)

\* build_payload: the payload, the three label lists written to result,
\* and records_hr as the function leaves it.
build_payload(recs_knack, recs_hr, run_date) ==
    LET a == HrLoop(recs_knack, 1, run_date, Len(recs_hr),
                    [ payload |-> << >>, updates |-> << >>,
                      additions |-> << >>, records_hr |-> recs_hr ])
        b == KnackLoop(recs_knack, a.records_hr, 1,
                       [ payload |-> a.payload, inactivate |-> << >> ])
    IN  [ payload |-> b.payload, updates |-> a.updates,
          additions |-> a.additions, inactivate |-> b.inactivate,
          records_hr |-> a.records_hr ]

(***************************************************************************)
(* remove_empty_emails                                                     *)
(***************************************************************************)
\* The loop body without the "except KeyError" branch's append.
CleanOne_noexcept(r) ==
    IF EMAIL_FIELD \in DOMAIN r /\ "email" \in DOMAIN r[EMAIL_FIELD]
    THEN IF r[EMAIL_FIELD].email # NO_EMAIL THEN << r >> ELSE << >>
    ELSE << >>

\* One iteration of the loop: what is appended to cleaned_payload for r.
\* A missing email key raises KeyError in the try block, and so does the
\* missing name key in the log line that follows the append.
CleanOne(r) ==
    IF EMAIL_FIELD \in DOMAIN r /\ "email" \in DOMAIN r[EMAIL_FIELD]
    THEN IF r[EMAIL_FIELD].email # NO_EMAIL
         THEN IF NAME_FIELD \in DOMAIN r THEN << r >> ELSE << r, r >>
         ELSE << >>
    ELSE << r >>

RECURSIVE remove_empty_emails(_)
remove_empty_emails(pl) ==
    IF pl = << >> THEN << >>
    ELSE CleanOne(Head(pl)) \o remove_empty_emails(Tail(pl))

(***************************************************************************)
(* format_errors                                                           *)
(***************************************************************************)
\* The report of one rejected record: the messages and the record's data.
format_errors(error_list, record) ==
    [ separator |-> "----------", errors |-> error_list, data |-> record ]


(***************************************************************************)
(* The two datasets the script reads: the Banner records as update_emails  *)
(* returns them, and the accounts object of the Knack app.                 *)
(***************************************************************************)
\* fullname, "Last, First" form, as its tokens.
FullName(p) ==
    CASE p = 1 -> << "Doe", ",", "Jane", "Q" >>
      [] p = 2 -> << "Van", "Dyke", ",", "Al" >>
      [] OTHER -> << "Roe", ",", "Sam" >>

BannerEmails == { "no email", "", "A@X.GOV" }

BannerRecord(p, e) ==
    [ pidm |-> p, temp_status |-> "Regular", job_title |-> "Engineer",
      email |-> e, empclass_desc |-> "Classified", divn_name |-> "Signals",
      fullname |-> FullName(p), posn |-> "P100",
      hiredate |-> << "January", "19", "1999", "00:00:00" >> ]

\* What Knack stores for a record it was sent: its own id, the separated
\* flag, and presentation keys inside the name and date sub-values.
KnackStored(r, id) ==
    LET named == Put(r, NAME_FIELD,
                     Put(r[NAME_FIELD], "formatted_value",
                         r[NAME_FIELD].first \o r[NAME_FIELD].last))
        dated == Put(named, "field_264",
                     Put(r["field_264"], "date_formatted", r["field_264"].date))
        flagged == IF SEPARATED_FIELD \in DOMAIN r THEN dated
                   ELSE Put(dated, SEPARATED_FIELD, FALSE)
    IN  Put(flagged, "id", id)

\* The accounts the model draws: every value of the status, the separated
\* flag, the class and the email occurs, each next to the values of the
\* others that change what build_payload does with the record.
KnackVariants ==
    { [ status |-> "active",   separated |-> FALSE, class |-> "Regular",  email |-> "a@x.gov" ],
      [ status |-> "inactive", separated |-> FALSE, class |-> "Regular",  email |-> "a@x.gov" ],
      [ status |-> "inactive", separated |-> TRUE,  class |-> "Regular",  email |-> "a@x.gov" ],
      [ status |-> "active",   separated |-> FALSE, class |-> "Contract", email |-> "a@x.gov" ],
      [ status |-> "inactive", separated |-> FALSE, class |-> "Regular",  email |-> "no email" ],
      [ status |-> "active",   separated |-> TRUE,  class |-> "Contract", email |-> "no email" ] }

KnackRecord(p, v) ==
    LET r0 == map_record(BannerRecord(p, v.email))
        r1 == Put(r0, CLASS_FIELD, v.class)
        r2 == Put(r1, USER_STATUS_FIELD, v.status)
        r3 == Put(r2, SEPARATED_FIELD, v.separated)
    IN  KnackStored(r3, 100 + p)

RECURSIVE Ascending(_)
\* The members of a set of employee ids in ascending order.
Ascending(S) ==
    IF S = {} THEN << >>
    ELSE LET p == CHOOSE x \in S : \A y \in S : x <= y
         IN  << p >> \o Ascending(S \ {p})

BannerList(S, f) ==
    LET ids == Ascending(S)
    IN  [ i \in 1..Len(ids) |-> BannerRecord(ids[i], f[ids[i]]) ]

KnackList(S, f) ==
    LET ids == Ascending(S)
    IN  [ i \in 1..Len(ids) |-> KnackRecord(ids[i], f[ids[i]]) ]

BannerDatasets ==
    UNION { { BannerList(S, f) : f \in [S -> BannerEmails] } :
            S \in SUBSET Pidms }

KnackDatasets ==
    UNION { { KnackList(S, f) : f \in [S -> KnackVariants] } :
            S \in SUBSET Pidms }

(***************************************************************************)
(* app.record: what a successful call does to the accounts object.         *)
(***************************************************************************)
\* The record with the sent fields overwritten; a sent sub-value replaces
\* the keys it carries.
Overwrite(stored, record) ==
    [ k \in DOMAIN stored |->
        IF k \in DOMAIN record
        THEN IF k \in HandlerFields
             THEN [ k2 \in DOMAIN stored[k] |->
                      IF k2 \in DOMAIN record[k] THEN record[k][k2]
                      ELSE stored[k][k2] ]
             ELSE record[k]
        ELSE stored[k] ]

KnackApply(store, record, method) ==
    IF method = "update"
    THEN [ i \in 1..Len(store) |->
             IF store[i]["id"] = record["id"] THEN Overwrite(store[i], record)
             ELSE store[i] ]
    ELSE Append(store, KnackStored(record, 200 + Len(store) + 1))

(***************************************************************************)
(* The state of a run of the script.                                       *)
(***************************************************************************)
VARIABLES
    pc,              \* where main is
    run,             \* number of the run
    today,           \* the module-level run date
    banner,          \* the Banner records, emails updated
    knack_store,     \* the accounts object in Knack
    records_mapped,  \* main's records_mapped
    records_knack,   \* main's records_knack
    payload,         \* main's payload
    cleaned_payload, \* main's cleaned_payload
    result,          \* main's result dict
    attempted,       \* the records app.record was called with, in order
    outcomes,        \* the outcome of each of these calls
    script_result,   \* what main returned
    exit_message     \* the message of the exception that ends the process

vars == << pc, run, today, banner, knack_store, records_mapped, records_knack,
           payload, cleaned_payload, result, attempted, outcomes,
           script_result, exit_message >>

\* What the script got from main, and the exception that ended it.
NotReturned == [ returned |-> FALSE ]
Returned(value) == [ returned |-> TRUE, value |-> value ]
NoException == [ raised |-> "nothing" ]
Raised(type, message) == [ raised |-> type, message |-> message ]
EmptyResult ==
    [ updates |-> << >>, additions |-> << >>, inactivate |-> << >>,
      errors |-> << >> ]

\* date.today().strftime("%m/%d/%Y"), one day per run.
DateOfRun(n) == "11/0" \o ToString(n) \o "/2026"

Init ==
    /\ pc = "start"
    /\ run = 1
    /\ today = DateOfRun(1)
    /\ banner \in BannerDatasets
    /\ knack_store \in KnackDatasets
    /\ records_mapped = << >>
    /\ records_knack = << >>
    /\ payload = << >>
    /\ cleaned_payload = << >>
    /\ result = EmptyResult
    /\ attempted = << >>
    /\ outcomes = << >>
    /\ script_result = NotReturned
    /\ exit_message = NoException

\* main, up to the call of build_payload: the records are read and mapped.
Fetch ==
    /\ pc = "start"
    /\ records_mapped' = map_records(banner)
    /\ records_knack' = knack_store
    /\ pc' = "build"
    /\ UNCHANGED << run, today, banner, knack_store, payload, cleaned_payload,
                    result, attempted, outcomes, script_result, exit_message >>

\* main's call of build_payload.
BuildPayload ==
    /\ pc = "build"
    /\ LET b == build_payload(records_knack, records_mapped, today)
       IN  /\ payload' = b.payload
           /\ records_mapped' = b.records_hr
           /\ result' = [ result EXCEPT !.updates = b.updates,
                                        !.additions = b.additions,
                                        !.inactivate = b.inactivate ]
    /\ pc' = "clean"
    /\ UNCHANGED << run, today, banner, knack_store, records_knack,
                    cleaned_payload, attempted, outcomes, script_result,
                    exit_message >>

\* main's call of remove_empty_emails, and result["errors"] = [].
RemoveEmptyEmails ==
    /\ pc = "clean"
    /\ cleaned_payload' = remove_empty_emails(payload)
    /\ result' = [ result EXCEPT !.errors = << >> ]
    /\ pc' = "apply"
    /\ UNCHANGED << run, today, banner, knack_store, records_mapped,
                    records_knack, payload, attempted, outcomes,
                    script_result, exit_message >>

\* The record the apply loop is at, and the method it is sent with.
Current == cleaned_payload[Len(attempted) + 1]
Method(record) ==
    IF "id" \in DOMAIN record /\ record["id"] # 0 THEN "update" ELSE "create"

\* One iteration of the apply loop, app.record succeeding.
ApplyOk ==
    /\ pc = "apply"
    /\ Len(attempted) < Len(cleaned_payload)
    /\ knack_store' = KnackApply(knack_store, Current, Method(Current))
    /\ attempted' = Append(attempted, Current)
    /\ outcomes' = Append(outcomes, "ok")
    /\ UNCHANGED << pc, run, today, banner, records_mapped, records_knack,
                    payload, cleaned_payload, result, script_result,
                    exit_message >>

\* The 400 branch with the report raised at once instead of "continue".
ApplyInvalid_stop ==
    /\ pc = "apply"
    /\ Len(attempted) < Len(cleaned_payload)
    /\ attempted' = Append(attempted, Current)
    /\ outcomes' = Append(outcomes, "400")
    /\ result' = [ result EXCEPT !.errors =
                     Append(@, format_errors(<< "invalid" >>, Current)) ]
    /\ pc' = "failed"
    /\ exit_message' = Raised("Exception", result'.errors)
    /\ UNCHANGED << run, today, banner, knack_store, records_mapped,
                    records_knack, payload, cleaned_payload, script_result >>

\* One iteration of the apply loop, app.record raising HTTPError 400.
ApplyInvalid ==
    /\ pc = "apply"
    /\ Len(attempted) < Len(cleaned_payload)
    /\ attempted' = Append(attempted, Current)
    /\ outcomes' = Append(outcomes, "400")
    /\ result' = [ result EXCEPT !.errors =
                     Append(@, format_errors(<< "invalid" >>, Current)) ]
    /\ UNCHANGED << pc, run, today, banner, knack_store, records_mapped,
                    records_knack, payload, cleaned_payload, script_result,
                    exit_message >>

\* The other branch with the exception swallowed instead of raised.
ApplyFatal_continue ==
    /\ pc = "apply"
    /\ Len(attempted) < Len(cleaned_payload)
    /\ attempted' = Append(attempted, Current)
    /\ outcomes' = Append(outcomes, "fatal")
    /\ UNCHANGED << pc, run, today, banner, knack_store, records_mapped,
                    records_knack, payload, cleaned_payload, result,
                    script_result, exit_message >>

\* One iteration of the apply loop, app.record raising another HTTPError:
\* the exception leaves main.
ApplyFatal ==
    /\ pc = "apply"
    /\ Len(attempted) < Len(cleaned_payload)
    /\ attempted' = Append(attempted, Current)
    /\ outcomes' = Append(outcomes, "fatal")
    /\ pc' = "crashed"
    /\ exit_message' = Raised("HTTPError", << >>)
    /\ UNCHANGED << run, today, banner, knack_store, records_mapped,
                    records_knack, payload, cleaned_payload, result,
                    script_result >>

\* The end of the loop: main returns result, and the script raises when
\* result["errors"] is not empty.
Finish ==
    /\ pc = "apply"
    /\ Len(attempted) = Len(cleaned_payload)
    /\ script_result' = Returned(result)
    /\ IF result.errors # << >>
       THEN pc' = "failed" /\ exit_message' = Raised("Exception", result.errors)
       ELSE pc' = "success" /\ UNCHANGED exit_message
    /\ UNCHANGED << run, today, banner, knack_store, records_mapped,
                    records_knack, payload, cleaned_payload, result,
                    attempted, outcomes >>

\* The script is started again after a run that ended without an
\* exception, on the same Banner records.
Rerun ==
    /\ pc = "success"
    /\ run < MaxRuns
    /\ run' = run + 1
    /\ today' = DateOfRun(run + 1)
    /\ pc' = "start"
    /\ records_mapped' = << >>
    /\ records_knack' = << >>
    /\ payload' = << >>
    /\ cleaned_payload' = << >>
    /\ result' = EmptyResult
    /\ attempted' = << >>
    /\ outcomes' = << >>
    /\ script_result' = NotReturned
    /\ UNCHANGED << banner, knack_store, exit_message >>

Next ==
    \/ Fetch
    \/ BuildPayload
    \/ RemoveEmptyEmails
    \/ ApplyOk
    \/ ApplyInvalid
    \/ ApplyFatal
    \/ Finish
    \/ Rerun

Spec == Init /\ [][Next]_vars


(***************************************************************************)
(* Vocabulary of the properties.                                           *)
(***************************************************************************)
\* build_payload has just returned: payload and result are what it left.
Built == pc = "clean"
\* remove_empty_emails has returned in this run, and no later run began.
Cleaned == pc \notin { "start", "build", "clean" }
\* remove_empty_emails has just returned.
JustCleaned == pc = "apply" /\ attempted = << >>

\* The canonical records as map_records returned them.
Canonical == map_records(banner)

IsCreate(op) == PK_FIELD \in DOMAIN op /\ "id" \notin DOMAIN op
IsUpdate(op) == PK_FIELD \in DOMAIN op /\ "id" \in DOMAIN op
IsDeactivate(op) == PK_FIELD \notin DOMAIN op

\* The positions of the payload that hold the canonical record with key pk.
OpsOf(pk) ==
    { k \in 1..Len(payload) :
        PK_FIELD \in DOMAIN payload[k] /\ payload[k][PK_FIELD] = pk }

\* The positions of the payload that hold a deactivation of the target id.
DeactivationsOf(id) ==
    { k \in 1..Len(payload) :
        IsDeactivate(payload[k]) /\ payload[k]["id"] = id }

InKnack(pk) ==
    \E j \in 1..Len(records_knack) : records_knack[j][PK_FIELD] = pk
InBanner(pk) ==
    \E i \in 1..Len(banner) : banner[i].pidm = pk

\* Some key of r, or of a structured value of r, has another value in t.
Mismatch(r, t) ==
    \E k \in DOMAIN r :
        IF k \in HandlerFields
        THEN \E k2 \in DOMAIN r[k] : t[k][k2] # r[k][k2]
        ELSE t[k] # r[k]

Positions(seq, v) == { i \in 1..Len(seq) : seq[i] = v }

(***************************************************************************)
(* C1                                                                      *)
(***************************************************************************)
\* C1: every canonical record whose primary key is the key of no target
\* record has exactly one operation in the payload, a Create: it has no id,
\* status active, a generated password, the run date as creation date, the
\* Staff profile as role, and an email that is neither empty nor the
\* "no email" sentinel, whatever the source email is.
C1_CreateForNewHire ==
    Built =>
      \A i \in 1..Len(Canonical) :
        LET pk == Canonical[i][PK_FIELD] IN
        ~ InKnack(pk) =>
          /\ Cardinality(OpsOf(pk)) = 1
          /\ \A k \in OpsOf(pk) :
               LET op == payload[k] IN
               /\ "id" \notin DOMAIN op
               /\ op[USER_STATUS_FIELD] = "active"
               /\ op[PASSWORD_FIELD] = random_password
               /\ op[CREATED_DATE_FIELD] = today
               /\ op[USER_ROLE_FIELD] = << "profile_7" >>
               /\ op[EMAIL_FIELD].email # ""
               /\ op[EMAIL_FIELD].email # NO_EMAIL

(***************************************************************************)
(* C2                                                                      *)
(***************************************************************************)
\* The target record an Update of the payload was matched to.
TargetOf(op) ==
    records_knack[FindKnack(records_knack, op[PK_FIELD], 1)]

\* C2: every Update of the payload carries the id of the target record with
\* its primary key; it carries a status exactly when that target is
\* inactive and not separated, and that status is active.
C2_UpdateStatus ==
    Built =>
      \A k \in 1..Len(payload) :
        LET op == payload[k] IN
        IsUpdate(op) =>
          /\ InKnack(op[PK_FIELD])
          /\ op["id"] = TargetOf(op)["id"]
          /\ (USER_STATUS_FIELD \in DOMAIN op) <=>
               ( /\ TargetOf(op)[USER_STATUS_FIELD] = "inactive"
                 /\ ~ TargetOf(op)[SEPARATED_FIELD] )
          /\ (USER_STATUS_FIELD \in DOMAIN op) =>
               op[USER_STATUS_FIELD] = "active"

\* The payload holds an Update that reactivates its target, and an Update
\* of a separated inactive target, which has no status.
C2_Witness ==
    /\ Built
    /\ \E k \in 1..Len(payload) :
         /\ IsUpdate(payload[k])
         /\ USER_STATUS_FIELD \in DOMAIN payload[k]
    /\ \E k \in 1..Len(payload) :
         /\ IsUpdate(payload[k])
         /\ USER_STATUS_FIELD \notin DOMAIN payload[k]
         /\ TargetOf(payload[k])[USER_STATUS_FIELD] = "inactive"
         /\ TargetOf(payload[k])[SEPARATED_FIELD]

(***************************************************************************)
(* C3                                                                      *)
(***************************************************************************)
\* The canonical record i and the target record j have the same primary
\* key and every mapped field of the one has the value the other has.
MatchedIdentical(i, j) ==
    /\ Canonical[i][PK_FIELD] = records_knack[j][PK_FIELD]
    /\ ~ Mismatch(Canonical[i], records_knack[j])

\* C3 as stated: a canonical record that matches a target record and has
\* its value in every mapped field has no operation in the payload and no
\* label in the updates list, whatever the target's status and separated
\* flag are.
C3_IdenticalNoOperation ==
    Built =>
      \A i \in 1..Len(Canonical), j \in 1..Len(records_knack) :
        MatchedIdentical(i, j) =>
          /\ OpsOf(Canonical[i][PK_FIELD]) = {}
          /\ Positions(result.updates, Canonical[i][NAME_FIELD]) = {}

\* C3 amended: such a record has no operation and no label unless its
\* target is inactive and not separated; then it has exactly one, an
\* Update with the target's id and status active, and one label.
C3_IdenticalNoOperationUnlessReactivated ==
    Built =>
      \A i \in 1..Len(Canonical), j \in 1..Len(records_knack) :
        MatchedIdentical(i, j) =>
          IF /\ records_knack[j][USER_STATUS_FIELD] = "inactive"
             /\ ~ records_knack[j][SEPARATED_FIELD]
          THEN /\ Cardinality(OpsOf(Canonical[i][PK_FIELD])) = 1
               /\ \A k \in OpsOf(Canonical[i][PK_FIELD]) :
                    /\ payload[k]["id"] = records_knack[j]["id"]
                    /\ payload[k][USER_STATUS_FIELD] = "active"
               /\ Cardinality(Positions(result.updates,
                                        Canonical[i][NAME_FIELD])) = 1
          ELSE /\ OpsOf(Canonical[i][PK_FIELD]) = {}
               /\ Positions(result.updates, Canonical[i][NAME_FIELD]) = {}

\* Two identical pairs, one with an active target and no operation, one
\* with an inactive separated target and no operation.
C3_Witness ==
    /\ Built
    /\ \E i \in 1..Len(Canonical), j \in 1..Len(records_knack) :
         /\ MatchedIdentical(i, j)
         /\ records_knack[j][USER_STATUS_FIELD] = "active"
         /\ OpsOf(Canonical[i][PK_FIELD]) = {}
    /\ \E i \in 1..Len(Canonical), j \in 1..Len(records_knack) :
         /\ MatchedIdentical(i, j)
         /\ records_knack[j][USER_STATUS_FIELD] = "inactive"
         /\ records_knack[j][SEPARATED_FIELD]
         /\ OpsOf(Canonical[i][PK_FIELD]) = {}

(***************************************************************************)
(* C4                                                                      *)
(***************************************************************************)
\* C4: a target record has a Deactivate in the payload exactly when no
\* canonical record has its primary key, its status is not inactive and its
\* class is not Contract; there is one, and it is the id and the status
\* inactive and nothing else.
C4_Deactivate ==
    Built =>
      /\ \A j \in 1..Len(records_knack) :
           LET t == records_knack[j] IN
           /\ DeactivationsOf(t["id"]) # {} <=>
                ( /\ ~ InBanner(t[PK_FIELD])
                  /\ t[USER_STATUS_FIELD] # "inactive"
                  /\ t[CLASS_FIELD] # "Contract" )
           /\ Cardinality(DeactivationsOf(t["id"])) <= 1
      /\ \A k \in 1..Len(payload) :
           IsDeactivate(payload[k]) =>
             /\ DOMAIN payload[k] = { "id", USER_STATUS_FIELD }
             /\ payload[k][USER_STATUS_FIELD] = "inactive"
             /\ \E j \in 1..Len(records_knack) :
                  records_knack[j]["id"] = payload[k]["id"]

\* An orphaned contractor without an operation next to an orphaned
\* employee with a Deactivate.
C4_Witness ==
    /\ Built
    /\ \E j \in 1..Len(records_knack) :
         /\ ~ InBanner(records_knack[j][PK_FIELD])
         /\ records_knack[j][USER_STATUS_FIELD] = "active"
         /\ records_knack[j][CLASS_FIELD] = "Contract"
         /\ DeactivationsOf(records_knack[j]["id"]) = {}
    /\ \E j \in 1..Len(records_knack) :
         /\ ~ InBanner(records_knack[j][PK_FIELD])
         /\ DeactivationsOf(records_knack[j]["id"]) # {}

(***************************************************************************)
(* C5                                                                      *)
(***************************************************************************)
\* The operations remove_empty_emails is to keep.
Kept(op) ==
    EMAIL_FIELD \notin DOMAIN op \/ op[EMAIL_FIELD].email # NO_EMAIL

RECURSIVE ErrorsOf(_, _)
\* The reports of the records that were rejected, in the order of the calls.
ErrorsOf(recs, outs) ==
    IF recs = << >> THEN << >>
    ELSE ( IF Head(outs) = "400"
           THEN << format_errors(<< "invalid" >>, Head(recs)) >>
           ELSE << >> ) \o ErrorsOf(Tail(recs), Tail(outs))

\* C6: a rejected record adds one report to result["errors"] and the loop
\* goes on.  When main returns, every record of the cleaned payload was
\* sent once, in payload order, there is one report per rejected record,
\* and the script ends with an exception, whose message is the reports
\* joined, exactly when a record was rejected.
C6_ValidationErrorsCollected ==
    /\ pc \in { "apply", "success", "failed" } =>
         result.errors = ErrorsOf(attempted, outcomes)
    /\ pc \in { "success", "failed" } =>
         /\ attempted = cleaned_payload
         /\ Len(outcomes) = Len(cleaned_payload)
         /\ Len(result.errors) = Cardinality(Positions(outcomes, "400"))
         /\ script_result = Returned(result)
         /\ pc = "failed" <=> Positions(outcomes, "400") # {}
         /\ pc = "failed" => exit_message = Raised("Exception", result.errors)
         /\ pc = "success" => exit_message = NoException

\* The script failed after a record was rejected and a later one accepted.
C6_Witness ==
    /\ pc = "failed"
    /\ \E i, j \in 1..Len(outcomes) :
         i < j /\ outcomes[i] = "400" /\ outcomes[j] = "ok"

(***************************************************************************)
(* C7                                                                      *)
(***************************************************************************)
RECURSIVE StoreAfter(_, _, _)
\* The accounts object after the accepted calls among the given ones.
StoreAfter(store, recs, outs) ==
    IF recs = << >> THEN store
    ELSE StoreAfter( IF Head(outs) = "ok"
                     THEN KnackApply(store, Head(recs), Method(Head(recs)))
                     ELSE store,
                     Tail(recs), Tail(outs) )

\* C7: once a call failed with a status that is not 400 the run is over:
\* that call is the last one, the records sent are the cleaned payload up
\* to it, the accepted ones before it are in the accounts object, and main
\* returned nothing, so neither the reports nor the labels are reported.
C7_FatalErrorEndsRun ==
    Positions(outcomes, "fatal") # {} =>
      /\ pc = "crashed"
      /\ Positions(outcomes, "fatal") = { Len(outcomes) }
      /\ Len(attempted) = Len(outcomes)
      /\ attempted = SubSeq(cleaned_payload, 1, Len(attempted))
      /\ knack_store = StoreAfter(records_knack, attempted, outcomes)
      /\ script_result = NotReturned
      /\ exit_message.raised = "HTTPError"

\* The run ended on a call with a record of the cleaned payload left to
\* send and labels in the change summary that main never returns.
C7_Witness ==
    /\ pc = "crashed"
    /\ Len(attempted) < Len(cleaned_payload)
    /\ result.updates # << >>
    /\ script_result = NotReturned

(***************************************************************************)
(* C8                                                                      *)
(***************************************************************************)
\* C8: is_different is true exactly when some key of the banner record
\* has another value in the knack record, a structured value being
\* compared on the keys of the banner sub-value only.  Keys and sub-keys
\* that only the knack record has do not count.
C8_IsDifferent ==
    pc \in { "build", "clean" } =>
    \A i \in 1..Len(records_mapped), j \in 1..Len(records_knack) :
      LET r == records_mapped[i]
          t == records_knack[j]
      IN  DOMAIN r \subseteq DOMAIN t =>
            ( is_different(r, t) <=> Mismatch(r, t) )

\* A banner record that is not different from a knack record which has
\* keys and sub-keys of its own, next to one that is different from it.
C8_Witness ==
    /\ pc = "build"
    /\ \E i \in 1..Len(records_mapped), j \in 1..Len(records_knack) :
         /\ DOMAIN records_mapped[i] \subseteq DOMAIN records_knack[j]
         /\ DOMAIN records_mapped[i] # DOMAIN records_knack[j]
         /\ DOMAIN records_mapped[i][NAME_FIELD]
              # DOMAIN records_knack[j][NAME_FIELD]
         /\ ~ is_different(records_mapped[i], records_knack[j])
    /\ \E i \in 1..Len(records_mapped), j \in 1..Len(records_knack) :
         /\ DOMAIN records_mapped[i] \subseteq DOMAIN records_knack[j]
         /\ is_different(records_mapped[i], records_knack[j])

(***************************************************************************)
(* C9                                                                      *)
(***************************************************************************)
\* C9: a run that follows a run all of whose operations were applied, on
\* the same Banner records, has nothing to send.
C9_SecondRunEmpty ==
    (run > 1 /\ Cleaned) => cleaned_payload = << >>

(***************************************************************************)
(* C10                                                                     *)
(***************************************************************************)
\* C10: the labels of the change summary are as many as the operations of
\* the cleaned payload, the ones the apply loop sends.
C10_SummaryMatchesPayload ==
    Cleaned =>
      Len(result.updates) + Len(result.additions) + Len(result.inactivate)
        = Len(cleaned_payload)

=============================================================================
